---- MODULE Spec2Model ----
(***************************************************************************)
(* piecewisefns/piecewise_linear_1d.py: monotonicity predicates,           *)
(* sanitizers (force_strictly_increasing, force_non_decreasing) and the    *)
(* ramp/constant/step classifiers, as a state machine: a caller holds the  *)
(* objects x_arg and y_arg, calls one function, and receives ret.          *)
(*                                                                         *)
(* Numbers are fixed point: the integer v stands for the real v / Scale.   *)
(* An array of integer dtype holds multiples of Scale only; storing a      *)
(* float into it truncates toward zero (numpy's cast on item assignment).  *)
(* Index sequences hold numpy's 0-based indices; At(s, i) reads s[i].      *)
(***************************************************************************)
EXTENDS Integers, Sequences, FiniteSets

\* ---- bounds of the model
MaxLen == 4
MaxVal == 3
MaxEps == 2
Scale == 2

VARIABLES pc, fn, x_arg, y_arg, x_kind, dtype, keep_end_points, eps,
          include_end_point, x0, y0, ret

vars == <<pc, fn, x_arg, y_arg, x_kind, dtype, keep_end_points, eps,
          include_end_point, x0, y0, ret>>

\* ---- sequences and numpy primitives

\* s[i] with numpy's 0-based index
At(s, i) == s[i + 1]

\* s[::-1]
Reverse(s) == [i \in 1..Len(s) |-> s[Len(s) + 1 - i]]

\* np.diff(x): x[i+1] - x[i] for i = 0 .. len(x)-2
diff(x) == [i \in 1..(Len(x) - 1) |-> x[i + 1] - x[i]]

\* np.where(mask)[0]: the 0-based positions where mask holds, ascending
RECURSIVE where_from(_, _)
where_from(mask, k) ==
    IF k > Len(mask) THEN <<>>
    ELSE IF mask[k] THEN <<k - 1>> \o where_from(mask, k + 1)
    ELSE where_from(mask, k + 1)

where(mask) == where_from(mask, 1)

\* np.arange(n): 0, 1, ..., n-1
arange(n) == [i \in 1..n |-> i - 1]

\* the set of values of a sequence
Range(s) == {s[i] : i \in 1..Len(s)}

\* np.delete(arr, obj): arr without the elements at the POSITIONS listed in
\* obj. Positions outside 0..len(arr)-1 are ignored (numpy <= 1.16, the last
\* numpy of the Python 2 this module is written in, warns and drops them).
RECURSIVE delete_from(_, _, _)
delete_from(arr, obj, k) ==
    IF k > Len(arr) THEN <<>>
    ELSE IF (k - 1) \in Range(obj) THEN delete_from(arr, obj, k + 1)
    ELSE <<arr[k]>> \o delete_from(arr, obj, k + 1)

np_delete(arr, obj) == delete_from(arr, obj, 1)

\* truncation toward zero to a whole number (a multiple of Scale)
trunc(v) == IF v >= 0 THEN (v \div Scale) * Scale ELSE -(((-v) \div Scale) * Scale)

\* the value an array of dtype dt stores when v is assigned to an item
cast(v, dt) == IF dt = "int" THEN trunc(v) ELSE v

\* np.asarray(x) is x itself when x is an ndarray, a new array for a list
asarray_shares(kind) == kind = "ndarray"

\* ---- monotonicity predicates

has_steps(x) == \E i \in 1..(Len(x) - 1) : diff(x)[i] = 0

strictly_increasing(x) == \A i \in 1..(Len(x) - 1) : diff(x)[i] > 0

strictly_decreasing(x) == \A i \in 1..(Len(x) - 1) : diff(x)[i] < 0

non_increasing_strict(x) == \A i \in 1..(Len(x) - 1) : diff(x)[i] < 0

non_increasing(x) == \A i \in 1..(Len(x) - 1) : diff(x)[i] <= 0

non_decreasing(x) == \A i \in 1..(Len(x) - 1) : diff(x)[i] >= 0

\* ---- sanitizers

\* dx with the signs of lines 190 and 194 exchanged
step_offsets_sign_swapped(m, keep, e) ==
    IF keep THEN [k \in 1..m |-> (m - k + 1) * (1 * e)]
    ELSE [k \in 1..m |-> k * (-1 * e)]

\* dx of line 192 / 196: the multiples of eps, one per step
step_offsets(m, keep, e) ==
    IF keep THEN [k \in 1..m |-> (m - k + 1) * (-1 * e)]
    ELSE [k \in 1..m |-> k * (1 * e)]

\* x[idx] = x[idx] + dx (line 198): the right side is evaluated on the old
\* values, each sum is stored with the array's dtype
fancy_add(x, idx, dx, dt) ==
    [i \in 1..Len(x) |->
        IF \E k \in 1..Len(idx) : idx[k] + 1 = i
        THEN cast(x[i] + dx[CHOOSE k \in 1..Len(idx) : idx[k] + 1 = i], dt)
        ELSE x[i]]

\* The body of force_strictly_increasing on the array contents xs, ys.
\* x, y: what is returned; buf: the final content of the buffer that
\* np.asarray(x) refers to (x[::-1] is a view of it, so an item assignment
\* through the view lands in the buffer at the mirrored position).
fsi_body(xs, ys, keep, e, dt) ==
    IF strictly_increasing(xs)
    THEN [status |-> "ok", x |-> xs, y |-> ys, buf |-> xs]
    ELSE IF strictly_decreasing(xs)
    THEN [status |-> "ok", x |-> Reverse(xs), y |-> Reverse(ys), buf |-> xs]
    ELSE
      LET rev == non_increasing(xs)
          x1 == IF rev THEN Reverse(xs) ELSE xs
          y1 == IF rev THEN Reverse(ys) ELSE ys
      IN  IF ~non_decreasing(x1)
          THEN [status |-> "ValueError", x |-> <<>>, y |-> <<>>, buf |-> xs]
          ELSE
            LET steps == where([i \in 1..(Len(x1) - 1) |-> diff(x1)[i] = 0])
                d == IF keep THEN 0 ELSE 1
                dx == step_offsets(Len(steps), keep, e)
                idx == [k \in 1..Len(steps) |-> steps[k] + d]
                x2 == fancy_add(x1, idx, dx, dt)
            IN  [status |-> "ok", x |-> x2, y |-> y1,
                 buf |-> IF rev THEN Reverse(x2) ELSE x2]

\* force_non_decreasing with the two tests in the other order
fnd_body_decreasing_first(xs, ys) ==
    IF non_increasing(xs)
    THEN [status |-> "ok", x |-> Reverse(xs), y |-> Reverse(ys)]
    ELSE IF ~non_decreasing(xs)
    THEN [status |-> "ValueError", x |-> <<>>, y |-> <<>>]
    ELSE [status |-> "ok", x |-> xs, y |-> ys]

\* The body of force_non_decreasing
fnd_body(xs, ys) ==
    IF non_decreasing(xs)
    THEN [status |-> "ok", x |-> xs, y |-> ys]
    ELSE IF ~non_increasing(xs)
    THEN [status |-> "ValueError", x |-> <<>>, y |-> <<>>]
    ELSE [status |-> "ok", x |-> Reverse(xs), y |-> Reverse(ys)]

\* ---- segment classifiers

\* np.diff(x) == 0, np.diff(y) == 0 and their combinations, as masks
mask_dx_zero(x) == [i \in 1..(Len(x) - 1) |-> diff(x)[i] = 0]

mask_dy_zero(y) == [i \in 1..(Len(y) - 1) |-> diff(y)[i] = 0]

mask_both_zero(x, y) == [i \in 1..(Len(x) - 1) |-> diff(x)[i] = 0 /\ diff(y)[i] = 0]

mask_none_zero(x, y) == [i \in 1..(Len(x) - 1) |-> diff(x)[i] # 0 /\ diff(y)[i] # 0]

\* The body of ramps_constants_steps
rcs_body(x, y) ==
    LET steps == where(mask_dx_zero(x))
        constants == where(mask_dy_zero(y))
        ramps == np_delete(arange(Len(x) - 1), steps \o constants)
    IN  [ramps |-> ramps, constants |-> constants, steps |-> steps]

\* The body of start_index_of_ramps
ramps_body(x, y) == where(mask_none_zero(x, y))

\* The body of start_index_of_constants
constants_body(x, y) == np_delete(where(mask_dy_zero(y)), where(mask_both_zero(x, y)))

\* The body of start_index_of_steps
steps_body(x, y) == np_delete(where(mask_dx_zero(x)), where(mask_both_zero(x, y)))

\* ---- is_initially_increasing

\* The body of is_initially_increasing: flag is the returned boolean;
\* np.where(...)[0][0] on a flat x indexes an empty array
iii_body(x) ==
    IF At(x, 1) # At(x, 0)
    THEN [status |-> "ok", flag |-> At(x, 1) > At(x, 0)]
    ELSE
      LET w == where([i \in 1..(Len(x) - 1) |-> diff(x)[i] # 0])
      IN  IF Len(w) = 0
          THEN [status |-> "IndexError", flag |-> FALSE]
          ELSE [status |-> "ok", flag |-> At(w, 0) > 0]

\* ---- non_increasing_and_non_decreasing_parts

\* np.sign
sign(v) == IF v > 0 THEN 1 ELSE IF v < 0 THEN -1 ELSE 0

\* A[-1].append(v)
append_last(A, v) == [A EXCEPT ![Len(A)] = Append(@, v)]

\* the test of line 127 without its sgn != 0 part
starts_new_run_on_zero(sgn, current_sign) == sgn # current_sign

\* line 127: does the sign of segment i start a new run?
starts_new_run(sgn, current_sign) == sgn # 0 /\ sgn # current_sign

\* lines 128-129 left out
close_run_never(A, i, include) == A

\* lines 128-129: with include_end_point the run that ends gets i as well
close_run(A, i, include) == IF include THEN append_last(A, i) ELSE A

\* the loop of lines 124-132 from segment i on (i is 0-based; i = 0 is skipped)
RECURSIVE parts_loop(_, _, _, _, _)
parts_loop(sign_changes, i, A, current_sign, include) ==
    IF i >= Len(sign_changes) THEN A
    ELSE IF i = 0 THEN parts_loop(sign_changes, 1, A, current_sign, include)
    ELSE
      LET sgn == At(sign_changes, i)
          new == starts_new_run(sgn, current_sign)
          A1 == IF new THEN close_run(A, i, include) \o << <<>> >> ELSE A
          s1 == IF new THEN sgn ELSE current_sign
      IN  parts_loop(sign_changes, i + 1, append_last(A1, i), s1, include)

\* The body of non_increasing_and_non_decreasing_parts; on a flat x line 122
\* indexes an empty array
parts_body(x, include) ==
    LET sign_changes == [i \in 1..(Len(x) - 1) |-> sign(diff(x)[i])]
        nz == where([i \in 1..(Len(x) - 1) |-> sign_changes[i] # 0])
    IN  IF Len(nz) = 0
        THEN [status |-> "IndexError", A |-> <<>>]
        ELSE
          LET current_sign == At(sign_changes, At(nz, 0))
              A == parts_loop(sign_changes, 0, << <<0>> >>, current_sign, include)
              last == A[Len(A)]
          IN  [status |-> "ok",
               A |-> IF include THEN append_last(A, last[Len(last)] + 1) ELSE A]

\* ---- state machine

NoRet ==
    [status |-> "none", x |-> <<>>, y |-> <<>>, ramps |-> <<>>,
     constants |-> <<>>, steps |-> <<>>, out |-> <<>>, flag |-> FALSE,
     A |-> <<>>]

\* the values an x item may hold, and those a dtype allows
XVals == 0..MaxVal

DtypeOk(x, dt) == dt = "int" => \A i \in 1..Len(x) : x[i] % Scale = 0

\* y: distinct labels 20, 40, ..., ascending or descending
YSeqs(n) == {[i \in 1..n |-> 20 * i], [i \in 1..n |-> 20 * (n + 1 - i)]}

\* A caller about to call a sanitizer: any x, list or ndarray, int or float
Init ==
    /\ pc = "ready"
    /\ fn = "none"
    /\ \E n \in 2..MaxLen :
         /\ x_arg \in [1..n -> XVals]
         /\ y_arg \in YSeqs(n)
    /\ x_kind \in {"list", "ndarray"}
    /\ dtype \in {"int", "float"}
    /\ DtypeOk(x_arg, dtype)
    /\ keep_end_points \in BOOLEAN
    /\ eps \in 1..MaxEps
    /\ include_end_point = FALSE
    /\ x0 = x_arg
    /\ y0 = y_arg
    /\ ret = NoRet

force_strictly_increasing ==
    /\ pc = "ready"
    /\ LET r == fsi_body(x_arg, y_arg, keep_end_points, eps, dtype)
       IN  /\ ret' = [NoRet EXCEPT !.status = r.status, !.x = r.x, !.y = r.y]
           /\ x_arg' = IF asarray_shares(x_kind) THEN r.buf ELSE x_arg
    /\ pc' = "done"
    /\ fn' = "force_strictly_increasing"
    /\ UNCHANGED <<y_arg, x_kind, dtype, keep_end_points, eps,
                 include_end_point, x0, y0>>

force_non_decreasing ==
    /\ pc = "ready"
    /\ LET r == fnd_body(x_arg, y_arg)
       IN  ret' = [NoRet EXCEPT !.status = r.status, !.x = r.x, !.y = r.y]
    /\ pc' = "done"
    /\ fn' = "force_non_decreasing"
    /\ UNCHANGED <<x_arg, y_arg, x_kind, dtype, keep_end_points, eps,
                 include_end_point, x0, y0>>

Next == force_strictly_increasing \/ force_non_decreasing

Spec == Init /\ [][Next]_vars

\* ---- the classifiers' callers: x and y non-decreasing, as documented

YVals == 0..MaxVal

InitClassify ==
    /\ pc = "ready"
    /\ fn = "none"
    /\ \E n \in 2..MaxLen :
         /\ x_arg \in {s \in [1..n -> XVals] : non_decreasing(s)}
         /\ y_arg \in {s \in [1..n -> YVals] : non_decreasing(s)}
    /\ x_kind = "list"
    /\ dtype = "float"
    /\ keep_end_points = TRUE
    /\ eps = 1
    /\ include_end_point = FALSE
    /\ x0 = x_arg
    /\ y0 = y_arg
    /\ ret = NoRet

ramps_constants_steps ==
    /\ pc = "ready"
    /\ LET r == rcs_body(x_arg, y_arg)
       IN  ret' = [NoRet EXCEPT !.status = "ok", !.ramps = r.ramps,
                                !.constants = r.constants, !.steps = r.steps]
    /\ pc' = "done"
    /\ fn' = "ramps_constants_steps"
    /\ UNCHANGED <<x_arg, y_arg, x_kind, dtype, keep_end_points, eps,
                 include_end_point, x0, y0>>

start_index_of_ramps ==
    /\ pc = "ready"
    /\ ret' = [NoRet EXCEPT !.status = "ok", !.out = ramps_body(x_arg, y_arg)]
    /\ pc' = "done"
    /\ fn' = "start_index_of_ramps"
    /\ UNCHANGED <<x_arg, y_arg, x_kind, dtype, keep_end_points, eps,
                 include_end_point, x0, y0>>

start_index_of_constants ==
    /\ pc = "ready"
    /\ ret' = [NoRet EXCEPT !.status = "ok", !.out = constants_body(x_arg, y_arg)]
    /\ pc' = "done"
    /\ fn' = "start_index_of_constants"
    /\ UNCHANGED <<x_arg, y_arg, x_kind, dtype, keep_end_points, eps,
                 include_end_point, x0, y0>>

start_index_of_steps ==
    /\ pc = "ready"
    /\ ret' = [NoRet EXCEPT !.status = "ok", !.out = steps_body(x_arg, y_arg)]
    /\ pc' = "done"
    /\ fn' = "start_index_of_steps"
    /\ UNCHANGED <<x_arg, y_arg, x_kind, dtype, keep_end_points, eps,
                 include_end_point, x0, y0>>

NextClassify ==
    \/ ramps_constants_steps
    \/ start_index_of_ramps
    \/ start_index_of_constants
    \/ start_index_of_steps

SpecClassify == InitClassify /\ [][NextClassify]_vars

\* ---- the callers of the functions of x alone: any x

InitMonotone ==
    /\ pc = "ready"
    /\ fn = "none"
    /\ \E n \in 2..MaxLen : x_arg \in [1..n -> XVals]
    /\ y_arg = <<>>
    /\ x_kind = "list"
    /\ dtype = "float"
    /\ keep_end_points = TRUE
    /\ eps = 1
    /\ include_end_point \in BOOLEAN
    /\ x0 = x_arg
    /\ y0 = y_arg
    /\ ret = NoRet

is_initially_increasing ==
    /\ pc = "ready"
    /\ LET r == iii_body(x_arg)
       IN  ret' = [NoRet EXCEPT !.status = r.status, !.flag = r.flag]
    /\ pc' = "done"
    /\ fn' = "is_initially_increasing"
    /\ UNCHANGED <<x_arg, y_arg, x_kind, dtype, keep_end_points, eps,
                 include_end_point, x0, y0>>

non_increasing_and_non_decreasing_parts ==
    /\ pc = "ready"
    /\ LET r == parts_body(x_arg, include_end_point)
       IN  ret' = [NoRet EXCEPT !.status = r.status, !.A = r.A]
    /\ pc' = "done"
    /\ fn' = "non_increasing_and_non_decreasing_parts"
    /\ UNCHANGED <<x_arg, y_arg, x_kind, dtype, keep_end_points, eps,
                 include_end_point, x0, y0>>

NextMonotone == is_initially_increasing \/ non_increasing_and_non_decreasing_parts

SpecMonotone == InitMonotone /\ [][NextMonotone]_vars

\* ---- properties

\* the words of the claims, stated on the values themselves
IsNonDecreasing(s) == \A i \in 1..(Len(s) - 1) : s[i] <= s[i + 1]

IsNonIncreasing(s) == \A i \in 1..(Len(s) - 1) : s[i] >= s[i + 1]

IsStrictlyIncreasing(s) == \A i \in 1..(Len(s) - 1) : s[i] < s[i + 1]

IsMonotone(s) == IsNonDecreasing(s) \/ IsNonIncreasing(s)

IsFlat(s) == \A i \in 1..(Len(s) - 1) : s[i] = s[i + 1]

Abs(v) == IF v >= 0 THEN v ELSE -v

\* the number of consecutive-equal pairs
EqualPairs(s) == Cardinality({i \in 1..(Len(s) - 1) : s[i] = s[i + 1]})

\* EqualPairs * e is smaller than every nonzero gap between consecutive values
EpsBelowGaps(s, e) ==
    \A i \in 1..(Len(s) - 1) : s[i] # s[i + 1] => EqualPairs(s) * e < Abs(s[i + 1] - s[i])

\* the 0-based interval indices of x0
Intervals == 0..(Len(x0) - 2)

\* a sequence of indices in strictly ascending order
Ascending(s) == \A i \in 1..(Len(s) - 1) : s[i] < s[i + 1]

Called(name) == pc = "done" /\ fn = name

\* C1: for non-decreasing (x, y) the ramps, constants and steps returned by
\* ramps_constants_steps are pairwise disjoint and their union is
\* {0, ..., len(x)-2}.
C1_Partition ==
    Called("ramps_constants_steps") =>
        /\ Range(ret.ramps) \cap Range(ret.constants) = {}
        /\ Range(ret.ramps) \cap Range(ret.steps) = {}
        /\ Range(ret.constants) \cap Range(ret.steps) = {}
        /\ Range(ret.ramps) \cup Range(ret.constants) \cup Range(ret.steps) = Intervals

\* C2: for monotone x and eps with (equal pairs) * eps below the smallest
\* nonzero gap, the x returned by force_strictly_increasing is strictly
\* increasing, for either value of keep_end_points.
C2_StrictlyIncreasing ==
    (Called("force_strictly_increasing") /\ IsMonotone(x0) /\ EpsBelowGaps(x0, eps)) =>
        ret.status = "ok" /\ IsStrictlyIncreasing(ret.x)

\* The statement of C2 for arrays of float dtype only, where an item
\* assignment stores the sum exactly.
FloatStrictlyIncreasing ==
    (Called("force_strictly_increasing") /\ dtype = "float" /\ IsMonotone(x0)
        /\ EpsBelowGaps(x0, eps)) =>
        ret.status = "ok" /\ IsStrictlyIncreasing(ret.x)

\* C3: for monotone x, force_strictly_increasing moves each x value by at
\* most (equal pairs) * eps from the input (reversed when x was
\* non-increasing), and returns the input y, in the same order or reversed.
C3_BoundedChange ==
    (Called("force_strictly_increasing") /\ IsMonotone(x0)) =>
        LET ref == IF IsNonIncreasing(x0) THEN Reverse(x0) ELSE x0
        IN  /\ ret.status = "ok"
            /\ Len(ret.x) = Len(x0)
            /\ \A i \in 1..Len(x0) : Abs(ret.x[i] - ref[i]) <= EqualPairs(x0) * eps
            /\ ret.y \in {y0, Reverse(y0)}

\* The statement of C3 for arrays of float dtype only.
FloatBoundedChange ==
    (Called("force_strictly_increasing") /\ dtype = "float" /\ IsMonotone(x0)) =>
        LET ref == IF IsNonIncreasing(x0) THEN Reverse(x0) ELSE x0
        IN  /\ ret.status = "ok"
            /\ Len(ret.x) = Len(x0)
            /\ \A i \in 1..Len(x0) : Abs(ret.x[i] - ref[i]) <= EqualPairs(x0) * eps
            /\ ret.y \in {y0, Reverse(y0)}

\* C4: force_strictly_increasing and force_non_decreasing raise ValueError
\* exactly when x is neither non-decreasing nor non-increasing, and return
\* a result for every monotone x, flat x included.
C4_ValueErrorIffNotMonotone ==
    (Called("force_strictly_increasing") \/ Called("force_non_decreasing")) =>
        /\ ret.status = "ValueError" <=> ~IsMonotone(x0)
        /\ IsMonotone(x0) => ret.status = "ok"

C4_Witness ==
    /\ Called("force_strictly_increasing")
    /\ IsFlat(x0)
    /\ Len(x0) >= 3
    /\ ret.status = "ok"

\* C5: for every non-decreasing x, force_strictly_increasing returns y as
\* given: the same values in the same order, never reversed.
C5_YUnaffected ==
    (Called("force_strictly_increasing") /\ IsNonDecreasing(x0)) =>
        ret.status = "ok" /\ ret.y = y0

\* C6: start_index_of_constants returns, ascending, exactly the indices i
\* with y[i+1] = y[i] and x[i+1] # x[i].
C6_Constants ==
    Called("start_index_of_constants") =>
        /\ ret.status = "ok"
        /\ Ascending(ret.out)
        /\ Range(ret.out) =
             {i \in Intervals : At(y0, i + 1) = At(y0, i) /\ At(x0, i + 1) # At(x0, i)}

\* C7: start_index_of_steps returns, ascending, exactly the indices i with
\* x[i+1] = x[i] and y[i+1] # y[i].
C7_Steps ==
    Called("start_index_of_steps") =>
        /\ ret.status = "ok"
        /\ Ascending(ret.out)
        /\ Range(ret.out) =
             {i \in Intervals : At(x0, i + 1) = At(x0, i) /\ At(y0, i + 1) # At(y0, i)}

\* C8: force_non_decreasing returns (x, y) unchanged when x is
\* non-decreasing (flat included), both reversed when x is non-increasing
\* but not non-decreasing; the returned x is non-decreasing either way.
C8_ForceNonDecreasing ==
    (Called("force_non_decreasing") /\ IsMonotone(x0)) =>
        /\ ret.status = "ok"
        /\ IsNonDecreasing(x0) => (ret.x = x0 /\ ret.y = y0)
        /\ ~IsNonDecreasing(x0) => (ret.x = Reverse(x0) /\ ret.y = Reverse(y0))
        /\ IsNonDecreasing(ret.x)

C8_Witness ==
    /\ Called("force_non_decreasing")
    /\ ~IsNonDecreasing(x0)
    /\ EqualPairs(x0) >= 1
    /\ ret.status = "ok"
    /\ ret.x = Reverse(x0)
    /\ ret.y = Reverse(y0)
    /\ ret.y # y0

\* C9: after force_strictly_increasing returns for a monotone x with
\* duplicate consecutive values, the object the caller passed as x holds
\* the values it held before the call, list or ndarray, reversed or not.
C9_InputNotMutated ==
    (Called("force_strictly_increasing") /\ IsMonotone(x0) /\ EqualPairs(x0) >= 1) =>
        x_arg = x0

\* C10: for x with a nonzero consecutive difference,
\* is_initially_increasing returns whether x[i+1] > x[i] at the first i
\* with x[i+1] # x[i].
C10_InitiallyIncreasing ==
    (Called("is_initially_increasing") /\ ~IsFlat(x0)) =>
        LET first == CHOOSE i \in Intervals :
                        /\ At(x0, i + 1) # At(x0, i)
                        /\ \A j \in 0..(i - 1) : At(x0, j + 1) = At(x0, j)
        IN  ret.status = "ok" /\ (ret.flag <=> At(x0, first + 1) > At(x0, first))

\* the difference x0[i+1] - x0[i] of segment i (0-based)
D(i) == At(x0, i + 1) - At(x0, i)

\* segment i has a nonzero difference whose sign is opposite to that of
\* the nearest preceding nonzero difference
Reversal(i) ==
    /\ D(i) # 0
    /\ \E j \in 0..(i - 1) :
         /\ D(j) # 0
         /\ \A k \in (j + 1)..(i - 1) : D(k) = 0
         /\ (D(j) > 0) # (D(i) > 0)

\* the groups of a result, one after the other
RECURSIVE Flatten(_)
Flatten(A) == IF Len(A) = 0 THEN <<>> ELSE Head(A) \o Flatten(Tail(A))

\* C11: without end points, for x that is not flat, the groups returned by
\* non_increasing_and_non_decreasing_parts are non-empty, their
\* concatenation is 0, 1, ..., len(x)-2, and a group begins at i >= 1
\* exactly when segment i reverses the sign of the nearest preceding
\* nonzero difference; no reversal gives a single group.
C11_GroupsSplitOnReversal ==
    (Called("non_increasing_and_non_decreasing_parts") /\ ~include_end_point
        /\ ~IsFlat(x0)) =>
        /\ ret.status = "ok"
        /\ \A k \in 1..Len(ret.A) : Len(ret.A[k]) >= 1
        /\ Flatten(ret.A) = arange(Len(x0) - 1)
        /\ \A i \in 1..(Len(x0) - 2) :
             (\E k \in 2..Len(ret.A) : ret.A[k][1] = i) <=> Reversal(i)
        /\ (\A i \in 1..(Len(x0) - 2) : ~Reversal(i)) => Len(ret.A) = 1

\* a reversal after a zero difference, and a zero difference that starts
\* no group
C11_Witness ==
    /\ Called("non_increasing_and_non_decreasing_parts")
    /\ ~include_end_point
    /\ Len(x0) = 4
    /\ D(0) > 0 /\ D(1) = 0 /\ D(2) < 0
    /\ ret.A = << <<0, 1>>, <<2>> >>

\* the x0 values at the point indices of group g
Selected(g) == [j \in 1..Len(g) |-> At(x0, g[j])]

\* C12: with end points, for x that is not flat, the groups are runs of
\* consecutive point indices chained end to start from 0 to len(x)-1, and
\* the x values each group selects are non-decreasing or non-increasing.
C12_ChainOfMonotoneRuns ==
    (Called("non_increasing_and_non_decreasing_parts") /\ include_end_point
        /\ ~IsFlat(x0)) =>
        /\ ret.status = "ok"
        /\ Len(ret.A) >= 1
        /\ \A k \in 1..Len(ret.A) :
             /\ Len(ret.A[k]) >= 2
             /\ \A j \in 1..(Len(ret.A[k]) - 1) : ret.A[k][j + 1] = ret.A[k][j] + 1
             /\ IsMonotone(Selected(ret.A[k]))
        /\ ret.A[1][1] = 0
        /\ \A k \in 1..(Len(ret.A) - 1) : ret.A[k][Len(ret.A[k])] = ret.A[k + 1][1]
        /\ ret.A[Len(ret.A)][Len(ret.A[Len(ret.A)])] = Len(x0) - 1

\* two reversals: three chained groups
C12_Witness ==
    /\ Called("non_increasing_and_non_decreasing_parts")
    /\ include_end_point
    /\ Len(x0) = 4
    /\ D(0) > 0 /\ D(1) < 0 /\ D(2) > 0
    /\ ret.A = << <<0, 1>>, <<1, 2>>, <<2, 3>> >>

\* the steps of x0: the 1-based positions i with x0[i] = x0[i+1]
StepsOf(s) == {i \in 1..(Len(s) - 1) : s[i] = s[i + 1]}

====
